---- MODULE Spec2Model ----
\* A model of the expiring connection cache of dbpool.go (SafeDbMapCache):
\* a map from string keys to PoolItem guarded by a sync.RWMutex, with a
\* background GC goroutine that evicts expired items.
\*
\* Threads are the caller goroutines and the GC goroutine. Every operation that
\* takes the write lock (Lock) runs its critical section as one step, because
\* nothing else can run while the lock is held exclusively. Operations that
\* take the read lock (RLock) hold it across steps, so that several of them
\* overlap as sync.RWMutex allows.
EXTENDS Integers, FiniteSets, TLC

\* ---------------------------------------------------------------- bounds
MaxTime == 3        \* the clock runs over 1..MaxTime
MaxHandles == 2     \* number of distinct *sqlx.DB handles ever passed to Set

\* Width, in bits, of the model's int64 (PoolItem.Expiration, time.Duration).
IntBits == 4
MaxInt == 2 ^ (IntBits - 1) - 1
MinInt == -(2 ^ (IntBits - 1))

Callers == {"c1", "c2"}
GCThread == "gc"
Threads == Callers \cup {GCThread}
Keys == {"a", "b"}
NoKey == "-"
Handles == 1 .. MaxHandles
NilDb == 0
\* The durations callers pass to Set: negative, zero (use the default), a small
\* positive one, and the largest Duration (math.MaxInt64).
Durations == {-1, 0, 1, MaxInt}
\* The arguments of New, <<defaultExpiration, cleanupInterval>>: a cache with no
\* default expiration and a GC, and one with a default expiration and no GC.
\* (With a default expiration Set(key, db, 0) stores what Set(key, db, 1) stores,
\* and without a GC the cache does what it does while the GC sleeps, so the
\* other two combinations add no map contents or interleavings to these.)
NewArgs == {<<0, 1>>, <<1, 0>>}
\* Which of Delete, the GC eviction and ClearAll called Close on a handle.
Closers == {"Delete", "clearItems", "ClearAll"}

VARIABLES
  pool,               \* c.pool: a function from the stored keys to their PoolItem
  defaultExpiration,  \* c.defaultExpiration
  cleanupInterval,    \* c.cleanupInterval
  readers,            \* the threads that hold c.RWMutex in read mode
  pc,                 \* where each thread is in the operation it runs
  local,              \* each thread's arguments, local variables and return value
  now,                \* time.Now()
  closeCount,         \* how many times Close was called on each handle
  closedBy,           \* which operations called Close on each handle
  warnings,           \* the handles whose Close error was logged (Logger.Warningf)
  nextHandle,         \* the next fresh handle a caller passes to Set
  touch,              \* history: per key, when its entry was last accessed in time
  history,            \* whether the history (touch) is recorded
  fatal               \* the Go runtime has thrown on a concurrent map access

vars == <<pool, defaultExpiration, cleanupInterval, readers, pc, local, now,
          closeCount, closedBy, warnings, nextHandle, touch, history, fatal>>

\* ------------------------------------------------------- data and helpers

\* int64 arithmetic: a sum is reduced to the two's complement range.
WrapInt(x) == ((x - MinInt) % (2 ^ IntBits)) + MinInt

\* time.Now().Add(duration).UnixNano()
UnixNanoAfterUnbounded(t, duration) == t + duration
UnixNanoAfter(t, duration) == WrapInt(t + duration)

\* type PoolItem struct. Created is left out: it is assigned time.Now() on every
\* write of an item and nothing in the package ever reads it.
PoolItem(db, expiration, duration) ==
  [Db |-> db, Expiration |-> expiration, Duration |-> duration]

\* The test both Get and ExpiredKeys apply: Expiration > 0 and now > Expiration.
IsExpiredAtDeadline(item, t) == item.Expiration > 0 /\ t >= item.Expiration
IsExpired(item, t) == item.Expiration > 0 /\ t > item.Expiration

\* delete(c.pool, key)
MapDeleteKeepsKey(p, key) == p
MapDelete(p, key) == [x \in (DOMAIN p) \ {key} |-> p[x]]

\* c.pool[key] = item
MapStoreAlone(p, key, item) == [x \in {key} |-> item]
MapStore(p, key, item) == [x \in (DOMAIN p) \cup {key} |-> IF x = key THEN item ELSE p[x]]

NoLocal == [key |-> NoKey, db |-> NilDb, duration |-> 0, expiration |-> 0,
            at |-> 0, ok |-> FALSE, keys |-> {}]

\* The sync.RWMutex. Lock waits until no reader holds it; a write-locked
\* section is one step, so no state has a writer inside and RLock never waits.
CanLock == readers = {}

\* The handles Set has put into the map so far.
Stored == {h \in Handles : /\ h < nextHandle
                           /\ \A t \in Callers : ~(pc[t] = "set_store" /\ local[t].db = h)}
\* The handles the map holds.
Held == {pool[k].Db : k \in DOMAIN pool}

\* db.Close(): counts the call, and logs a warning when it returns an error.
\* hs are the handles closed in one locked section, failed those whose Close
\* returned an error.
CloseAll(hs, failed, who) ==
  /\ closeCount' = [h \in Handles |-> IF h \in hs THEN closeCount[h] + 1 ELSE closeCount[h]]
  /\ closedBy' = [h \in Handles |-> IF h \in hs THEN closedBy[h] \cup {who} ELSE closedBy[h]]
  /\ warnings' = warnings \cup failed

\* ------------------------------------------------------------------ New
\* New(defaultExpiration, cleanupInterval): an empty map; the GC goroutine is
\* started only when cleanupInterval > 0.
New(de, ci) ==
  /\ pool = << >>
  /\ defaultExpiration = de
  /\ cleanupInterval = ci
  /\ readers = {}
  /\ pc = [t \in Threads |-> IF t = GCThread
                               THEN (IF ci > 0 THEN "gc_sleep" ELSE "gc_off")
                               ELSE "idle"]
  /\ local = [t \in Threads |-> NoLocal]

InitCache ==
  /\ \E args \in NewArgs : New(args[1], args[2])
  /\ now = 1
  /\ closeCount = [h \in Handles |-> 0]
  /\ closedBy = [h \in Handles |-> {}]
  /\ warnings = {}
  /\ nextHandle = 1
  /\ touch = [k \in Keys |-> 0]
  /\ fatal = FALSE

\* The cache, with no history recorded.
Init == InitCache /\ history = FALSE

\* The cache, with the history of accesses recorded.
InitSliding == InitCache /\ history = TRUE

\* The clock advances.
Tick ==
  /\ ~fatal
  /\ now < MaxTime
  /\ now' = now + 1
  /\ UNCHANGED <<pool, defaultExpiration, cleanupInterval, readers, pc, local,
                 closeCount, closedBy, warnings, nextHandle, touch, fatal, history>>

\* A caller has its return value and goes on.
Return(t) ==
  /\ ~fatal
  /\ pc[t] = "delete_ret"
  /\ pc' = [pc EXCEPT ![t] = "idle"]
  /\ local' = [local EXCEPT ![t] = NoLocal]
  /\ UNCHANGED <<pool, defaultExpiration, cleanupInterval, readers, now,
                 closeCount, closedBy, warnings, nextHandle, touch, fatal, history>>

\* ------------------------------------------------------------------ Set
\* Set, lines 50-59: the duration is resolved and the expiration computed
\* before the lock is taken. The caller passes a handle no Set was given before.
SetBegin(t, key, d) ==
  /\ ~fatal
  /\ pc[t] = "idle"
  /\ nextHandle <= MaxHandles
  /\ LET duration == IF d = 0 THEN defaultExpiration ELSE d
         expiration == IF duration > 0 THEN UnixNanoAfter(now, duration) ELSE 0
     IN local' = [local EXCEPT ![t] = [NoLocal EXCEPT !.key = key, !.db = nextHandle,
                                        !.duration = duration,
                                        !.expiration = expiration,
                                        !.at = IF history THEN now ELSE 0]]
  /\ nextHandle' = nextHandle + 1
  /\ pc' = [pc EXCEPT ![t] = "set_store"]
  /\ UNCHANGED <<pool, defaultExpiration, cleanupInterval, readers, now,
                 closeCount, closedBy, warnings, touch, fatal, history>>

\* Set, lines 61-70: under the write lock the item replaces whatever the key
\* held. Nothing is closed.
SetStore(t) ==
  /\ ~fatal
  /\ pc[t] = "set_store"
  /\ CanLock
  /\ pool' = MapStore(pool, local[t].key,
                      PoolItem(local[t].db, local[t].expiration, local[t].duration))
  /\ touch' = [touch EXCEPT ![local[t].key] = local[t].at]
  /\ pc' = [pc EXCEPT ![t] = "idle"]
  /\ local' = [local EXCEPT ![t] = NoLocal]
  /\ UNCHANGED <<defaultExpiration, cleanupInterval, readers, now,
                 closeCount, closedBy, warnings, nextHandle, fatal, history>>

\* ------------------------------------------------------------------ Get
\* History for the sliding window: an access to key's entry at time t keeps the
\* chain of accesses alive when it comes within the entry's Duration of the
\* previous one; 0 means no unbroken chain.
TouchOnGet(key, t) ==
  IF ~history THEN touch
  ELSE IF key \in DOMAIN pool /\ pool[key].Duration > 0 /\ touch[key] > 0
     /\ t - touch[key] <= pool[key].Duration
  THEN [touch EXCEPT ![key] = t]
  ELSE [touch EXCEPT ![key] = 0]

\* Get, lines 75-91: RLock, the lookup and the expiry test. A miss (absent or
\* expired) goes straight to the return; a hit goes on to the refresh, still
\* under the read lock.
GetLookup(t, key) ==
  /\ ~fatal
  /\ pc[t] = "idle"
  /\ readers' = readers \cup {t}
  /\ IF key \in DOMAIN pool /\ ~IsExpired(pool[key], now)
     THEN /\ local' = [local EXCEPT ![t] = [NoLocal EXCEPT !.key = key,
                                             !.db = pool[key].Db,
                                             !.duration = pool[key].Duration,
                                             !.ok = TRUE]]
          /\ pc' = [pc EXCEPT ![t] = "get_compute"]
     ELSE /\ local' = [local EXCEPT ![t] = [NoLocal EXCEPT !.key = key]]
          /\ pc' = [pc EXCEPT ![t] = "get_unlock"]
  /\ touch' = TouchOnGet(key, now)
  /\ UNCHANGED <<pool, defaultExpiration, cleanupInterval, now,
                 closeCount, closedBy, warnings, nextHandle, fatal, history>>

\* Get, lines 94-97: the new expiration, from the item's Duration.
GetCompute(t) ==
  /\ ~fatal
  /\ pc[t] = "get_compute"
  /\ local' = [local EXCEPT ![t].expiration =
                 IF local[t].duration > 0 THEN UnixNanoAfter(now, local[t].duration) ELSE 0]
  /\ pc' = [pc EXCEPT ![t] = "get_store"]
  /\ UNCHANGED <<pool, defaultExpiration, cleanupInterval, readers, now,
                 closeCount, closedBy, warnings, nextHandle, touch, fatal, history>>

\* (A Get that would write the item back without its Duration.)
GetStoreResetsDuration(t) ==
  /\ ~fatal
  /\ pc[t] = "get_store"
  /\ pool' = MapStore(pool, local[t].key,
                      PoolItem(local[t].db, local[t].expiration, 0))
  /\ pc' = [pc EXCEPT ![t] = "get_unlock"]
  /\ UNCHANGED <<defaultExpiration, cleanupInterval, readers, local, now,
                 closeCount, closedBy, warnings, nextHandle, touch, fatal, history>>

\* Get, lines 99-104: the refreshed item is written to the map while only the
\* read lock is held.
GetStore(t) ==
  /\ ~fatal
  /\ pc[t] = "get_store"
  /\ pool' = MapStore(pool, local[t].key,
                      PoolItem(local[t].db, local[t].expiration, local[t].duration))
  /\ pc' = [pc EXCEPT ![t] = "get_unlock"]
  /\ UNCHANGED <<defaultExpiration, cleanupInterval, readers, local, now,
                 closeCount, closedBy, warnings, nextHandle, touch, fatal, history>>

\* The write of lines 99-104 is a data race whenever another thread holds the
\* read lock. Besides the plain write (the item's Db and Duration are the ones
\* every concurrent Get writes, and Expiration is one word), the runtime may
\* detect the concurrent map access and throw, which ends the process and
\* every goroutine with it: the map is left as it was, nothing more is closed.
GetStoreThrow(t) ==
  /\ ~fatal
  /\ pc[t] = "get_store"
  /\ readers \ {t} # {}
  /\ fatal' = TRUE
  /\ pc' = [u \in Threads |-> "dead"]
  /\ local' = [u \in Threads |-> NoLocal]
  /\ readers' = {}
  /\ touch' = [k \in Keys |-> 0]
  /\ UNCHANGED <<pool, defaultExpiration, cleanupInterval, now,
                 closeCount, closedBy, warnings, nextHandle, history>>

\* The deferred c.RUnlock() of Get, GetItems and ExpiredKeys, and the return.
RUnlock(t) ==
  /\ ~fatal
  /\ pc[t] \in {"get_unlock", "items_unlock", "expired_unlock"}
  /\ readers' = readers \ {t}
  /\ pc' = [pc EXCEPT ![t] = "idle"]
  /\ local' = [local EXCEPT ![t] = NoLocal]
  /\ UNCHANGED <<pool, defaultExpiration, cleanupInterval, now,
                 closeCount, closedBy, warnings, nextHandle, touch, fatal, history>>

\* --------------------------------------------------------------- Delete
\* Lines 121-126 (and 186-192, 205-211): err := connector.Db.Close(); an error
\* is logged and the key is deleted either way.
CloseAndDeleteUnlessError(p, key, err) == IF err THEN p ELSE MapDelete(p, key)
CloseAndDelete(p, key, err) == MapDelete(p, key)

\* What Delete returns: errors.New("key not found") for an absent key, nil
\* otherwise. TRUE stands for nil.
DeleteReturnsNilAlways(found) == TRUE
DeleteReturnsNil(found) == found

\* Delete, lines 111-129, under the write lock: an absent key is an error;
\* otherwise the handle is closed and the key deleted.
Delete(t, key) ==
  /\ ~fatal
  /\ pc[t] = "idle"
  /\ CanLock
  /\ IF key \notin DOMAIN pool
     THEN /\ local' = [local EXCEPT ![t] = [NoLocal EXCEPT !.key = key,
                                             !.ok = DeleteReturnsNil(FALSE)]]
          /\ UNCHANGED <<pool, closeCount, closedBy, warnings, touch>>
     ELSE /\ \E err \in BOOLEAN :
                /\ CloseAll({pool[key].Db}, IF err THEN {pool[key].Db} ELSE {}, "Delete")
                /\ pool' = CloseAndDelete(pool, key, err)
          /\ touch' = [touch EXCEPT ![key] = 0]
          /\ local' = [local EXCEPT ![t] = [NoLocal EXCEPT !.key = key,
                                             !.db = pool[key].Db,
                                             !.ok = DeleteReturnsNil(TRUE)]]
  /\ pc' = [pc EXCEPT ![t] = "delete_ret"]
  /\ UNCHANGED <<defaultExpiration, cleanupInterval, readers, now, nextHandle, fatal, history>>

\* ------------------------------------------------- clearItems, ClearAll
\* The loop of clearItems and ClearAll over distinct keys: a key found in the
\* map has its handle closed (failed: the handles whose Close returns an
\* error) and every key is deleted.
RECURSIVE DeleteKeys(_, _, _)
DeleteKeysForgetsDelete(p, keys, failed) == p
DeleteKeysStopsAtMissing(p, keys, failed) ==
  IF keys \subseteq DOMAIN p THEN [x \in (DOMAIN p) \ keys |-> p[x]] ELSE p
DeleteKeys(p, keys, failed) ==
  IF keys = {} THEN p
  ELSE LET k == CHOOSE x \in keys : TRUE
       IN DeleteKeys(IF k \in DOMAIN p THEN CloseAndDelete(p, k, p[k].Db \in failed)
                                       ELSE MapDelete(p, k),
                     keys \ {k}, failed)

\* The handles the loop closes: those of the keys it finds in the map.
HandlesOfOne(p, keys) ==
  IF keys \cap DOMAIN p = {} THEN {} ELSE {p[CHOOSE k \in keys \cap DOMAIN p : TRUE].Db}
HandlesOf(p, keys) == {p[k].Db : k \in keys \cap DOMAIN p}

\* clearItems, lines 178-194, under the write lock.
clearItems(keys) ==
  /\ CanLock
  /\ \E failed \in SUBSET HandlesOf(pool, keys) :
        /\ CloseAll(HandlesOf(pool, keys), failed, "clearItems")
        /\ pool' = DeleteKeys(pool, keys, failed)
  /\ touch' = [k \in Keys |-> IF k \in keys THEN 0 ELSE touch[k]]

\* ClearAll, lines 197-213, under the write lock.
ClearAll(t) ==
  /\ ~fatal
  /\ pc[t] = "idle"
  /\ CanLock
  /\ \E failed \in SUBSET HandlesOf(pool, DOMAIN pool) :
        /\ CloseAll(HandlesOf(pool, DOMAIN pool), failed, "ClearAll")
        /\ pool' = DeleteKeys(pool, DOMAIN pool, failed)
  /\ touch' = [k \in Keys |-> 0]
  /\ UNCHANGED <<defaultExpiration, cleanupInterval, readers, pc, local, now,
                 nextHandle, fatal, history>>

\* ------------------------------------------------ GetItems, ExpiredKeys
\* The keys ExpiredKeys collects at time t (lines 168-172).
ExpiredKeysOfNone(p, t) == {}
ExpiredKeysOfAnyPast(p, t) == {k \in DOMAIN p : t > p[k].Expiration}
ExpiredKeysOf(p, t) == {k \in DOMAIN p : IsExpired(p[k], t)}

\* GetItems, lines 152-161: RLock and the scan; the unlock is RUnlock.
GetItems(t) ==
  /\ ~fatal
  /\ pc[t] = "idle"
  /\ readers' = readers \cup {t}
  /\ local' = [local EXCEPT ![t] = [NoLocal EXCEPT !.keys = DOMAIN pool, !.ok = TRUE]]
  /\ pc' = [pc EXCEPT ![t] = "items_unlock"]
  /\ UNCHANGED <<pool, defaultExpiration, cleanupInterval, now,
                 closeCount, closedBy, warnings, nextHandle, touch, fatal, history>>

\* ExpiredKeys, lines 164-175, called by a caller.
ExpiredKeys(t) ==
  /\ ~fatal
  /\ pc[t] = "idle"
  /\ readers' = readers \cup {t}
  /\ local' = [local EXCEPT ![t] = [NoLocal EXCEPT !.keys = ExpiredKeysOf(pool, now),
                                     !.ok = TRUE]]
  /\ pc' = [pc EXCEPT ![t] = "expired_unlock"]
  /\ UNCHANGED <<pool, defaultExpiration, cleanupInterval, now,
                 closeCount, closedBy, warnings, nextHandle, touch, fatal, history>>

\* ------------------------------------------------------------------- GC
\* c.pool == nil (line 141): no operation assigns c.pool after New.
PoolIsEmpty == DOMAIN pool = {}
PoolIsNil == FALSE

\* GC, lines 139-145: the timer fires, the nil test, and ExpiredKeys takes the
\* read lock and scans.
GCScan ==
  /\ ~fatal
  /\ pc[GCThread] = "gc_sleep"
  /\ IF PoolIsNil
     THEN /\ pc' = [pc EXCEPT ![GCThread] = "gc_exit"]
          /\ UNCHANGED <<readers, local>>
     ELSE /\ readers' = readers \cup {GCThread}
          /\ local' = [local EXCEPT ![GCThread] =
                         [NoLocal EXCEPT !.keys = ExpiredKeysOf(pool, now)]]
          /\ pc' = [pc EXCEPT ![GCThread] = "gc_unlock"]
  /\ UNCHANGED <<pool, defaultExpiration, cleanupInterval, now,
                 closeCount, closedBy, warnings, nextHandle, touch, fatal, history>>

\* GC, line 145: ExpiredKeys returns (RUnlock); with no expired key the loop
\* goes back to the timer.
GCUnlock ==
  /\ ~fatal
  /\ pc[GCThread] = "gc_unlock"
  /\ readers' = readers \ {GCThread}
  /\ IF local[GCThread].keys # {}
     THEN /\ pc' = [pc EXCEPT ![GCThread] = "gc_clear"]
          /\ UNCHANGED local
     ELSE /\ pc' = [pc EXCEPT ![GCThread] = "gc_sleep"]
          /\ local' = [local EXCEPT ![GCThread] = NoLocal]
  /\ UNCHANGED <<pool, defaultExpiration, cleanupInterval, now,
                 closeCount, closedBy, warnings, nextHandle, touch, fatal, history>>

\* GC, line 146: clearItems(keys) on the snapshot ExpiredKeys returned.
GCClear ==
  /\ ~fatal
  /\ pc[GCThread] = "gc_clear"
  /\ clearItems(local[GCThread].keys)
  /\ pc' = [pc EXCEPT ![GCThread] = "gc_sleep"]
  /\ local' = [local EXCEPT ![GCThread] = NoLocal]
  /\ UNCHANGED <<defaultExpiration, cleanupInterval, readers, now, nextHandle, fatal, history>>

Next ==
  \/ Tick
  \/ \E t \in Callers : Return(t)
  \/ \E t \in Callers, key \in Keys, d \in Durations : SetBegin(t, key, d)
  \/ \E t \in Callers : SetStore(t)
  \/ \E t \in Callers, key \in Keys : GetLookup(t, key)
  \/ \E t \in Callers : GetCompute(t)
  \/ \E t \in Callers : GetStore(t)
  \/ \E t \in Callers : GetStoreThrow(t)
  \/ \E t \in Callers : RUnlock(t)
  \/ \E t \in Callers, key \in Keys : Delete(t, key)
  \/ \E t \in Callers : ClearAll(t)
  \/ \E t \in Callers : GetItems(t)
  \/ \E t \in Callers : ExpiredKeys(t)
  \/ GCScan
  \/ GCUnlock
  \/ GCClear

Spec == Init /\ [][Next]_vars

\* The same cache with the history of accesses recorded.
SpecSliding == InitSliding /\ [][Next]_vars

\* The scheduling the sweeper's claims rest on, for a cache created with
\* cleanupInterval > 0. The timer of line 139 fires and the GC goroutine runs
\* (weak fairness of GCScan and GCUnlock), and the c.Lock() of clearItems
\* returns: sync.RWMutex makes RLock calls that come after a Lock call wait for
\* that writer, and the read-locked sections of this package are finite, so
\* the GC does not wait at line 179 forever (LockIsGranted; weak fairness of
\* GCClear alone does not say it, because the readers of this model never wait).
InitSweeper == InitCache /\ cleanupInterval > 0 /\ history = FALSE

LockIsGranted == []<>(pc[GCThread] # "gc_clear")

SweeperFairness ==
  /\ WF_vars(GCScan)
  /\ WF_vars(GCUnlock)
  /\ WF_vars(GCClear)
  /\ LockIsGranted

SpecSweeper == InitSweeper /\ [][Next]_vars /\ SweeperFairness

\* ------------------------------------------------------------ properties
\* Steps, recognised by what they do to the thread that takes them.
GetLookupStep(t) == pc[t] = "idle" /\ pc'[t] \in {"get_compute", "get_unlock"}
GetStoreStep(t) == pc[t] = "get_store" /\ pc'[t] = "get_unlock"
DeleteStep(t) == pc[t] = "idle" /\ pc'[t] = "delete_ret"
SetStoreStep(t) == pc[t] = "set_store" /\ pc'[t] = "idle"
GCClearStep == pc[GCThread] = "gc_clear" /\ pc'[GCThread] = "gc_sleep"
ClearAllStep == \E h \in Handles : "ClearAll" \in closedBy'[h] \ closedBy[h]

\* C1: no handle is ever closed more than once, and a closed handle was closed
\* by exactly one of Delete, the GC eviction (clearItems) and ClearAll.
C1_ClosedAtMostOnce ==
  \A h \in Handles : closeCount[h] <= 1 /\ Cardinality(closedBy[h]) = closeCount[h]

\* Two handles have been closed, by two different operations.
C1_Witness ==
  \E h, g \in Handles :
     /\ closeCount[h] = 1 /\ closeCount[g] = 1
     /\ closedBy[h] = {"clearItems"} /\ closedBy[g] \in {{"Delete"}, {"ClearAll"}}

\* C2: a handle that Set stored and that is no longer in the map has been
\* closed: its close count is 1 (in particular the handle an overwriting Set
\* replaced).
C2_DiscardedHandleIsClosed ==
  ~fatal => \A h \in Stored : h \notin Held => closeCount[h] = 1

\* C3: every entry the GC's clearItems removes is expired (Expiration > 0 and
\* now > Expiration) at the moment it is removed.
C3_SweeperEvictsOnlyExpired ==
  [][GCClearStep =>
       \A k \in (DOMAIN pool) \ (DOMAIN pool') :
          pool[k].Expiration > 0 /\ now > pool[k].Expiration]_vars

\* C4: no thread writes the map while another thread holds the lock, in any
\* mode: at every write of the map the only thread that may hold the lock
\* besides an exclusive writer is the one that writes.
C4_MapWritesAreExclusive ==
  [][(pool' # pool \/ \E t \in Callers : GetStoreStep(t)) =>
       \A u \in readers : GetStoreStep(u)]_vars

\* C5 (under SpecSliding): sliding expiration. A Get of key k that comes within the entry's
\* Duration d > 0 of the previous access, in an unbroken chain of such accesses
\* since the Set that stored the entry (touch[k] > 0), finds the entry and
\* returns its handle; and the GC does not evict the entry within d of its
\* last such access.
C5_SlidingKeepsEntryAlive ==
  [][/\ \A t \in Callers, k \in Keys :
          ( /\ GetLookupStep(t) /\ local'[t].key = k
            /\ k \in DOMAIN pool /\ pool[k].Duration > 0
            /\ touch[k] > 0 /\ now - touch[k] <= pool[k].Duration )
          => (local'[t].ok /\ local'[t].db = pool[k].Db)
     /\ GCClearStep =>
          \A k \in (DOMAIN pool) \ (DOMAIN pool') :
             ~(pool[k].Duration > 0 /\ touch[k] > 0 /\ now - touch[k] <= pool[k].Duration)
    ]_vars

\* C6: lazy expiration. A Get of a key whose entry has Expiration > 0 and
\* now > Expiration reports not-found and changes neither the map nor any close
\* count, up to and including its return; a Get of any other stored key goes on
\* to return the entry's handle with found.
C6_LazyExpiration ==
  [][\A t \in Callers :
       /\ \A k \in DOMAIN pool :
            (GetLookupStep(t) /\ local'[t].key = k) =>
               IF pool[k].Expiration > 0 /\ now > pool[k].Expiration
               THEN /\ pc'[t] = "get_unlock" /\ ~local'[t].ok /\ local'[t].db = NilDb
                    /\ UNCHANGED <<pool, closeCount, closedBy>>
               ELSE local'[t].ok /\ local'[t].db = pool[k].Db
       /\ (pc[t] = "get_unlock" /\ pc'[t] = "idle" /\ ~local[t].ok) =>
               UNCHANGED <<pool, closeCount, closedBy>>
       /\ (pc[t] \in {"get_compute", "get_store"} /\ pc'[t] \in {"get_store", "get_unlock"}) =>
               (local'[t].ok /\ local'[t].db = local[t].db /\ local[t].ok)
    ]_vars

\* A Get is about to return not-found for a key whose expired entry is still in
\* the map, with its handle unclosed.
C6_Witness ==
  \E t \in Callers :
     /\ pc[t] = "get_unlock" /\ ~local[t].ok
     /\ local[t].key \in DOMAIN pool
     /\ pool[local[t].key].Expiration > 0 /\ now > pool[local[t].key].Expiration
     /\ closeCount[pool[local[t].key].Db] = 0

\* C7: an entry stored with duration 0 on a cache whose default expiration is 0
\* (Duration = 0) keeps Expiration = 0, is in no ExpiredKeys result, is found by
\* every Get, and leaves the map only through Delete, ClearAll or an
\* overwriting Set; the GC never removes it.
C7_NeverExpireStays ==
  [][\A k \in DOMAIN pool :
       pool[k].Duration = 0 =>
         /\ pool[k].Expiration = 0
         /\ \A t \in Threads :
              (pc'[t] # pc[t] /\ pc'[t] \in {"expired_unlock", "gc_unlock"}) =>
                 k \notin local'[t].keys
         /\ \A t \in Callers :
              (GetLookupStep(t) /\ local'[t].key = k) =>
                 (local'[t].ok /\ local'[t].db = pool[k].Db)
         /\ (k \in DOMAIN pool' /\ pool'[k].Db = pool[k].Db) => pool'[k] = pool[k]
         /\ (k \notin DOMAIN pool') => (ClearAllStep \/ \E t \in Callers : DeleteStep(t))
    ]_vars

\* C8: Delete of a stored key returns nil, closes the entry's handle (which
\* was not closed before) once and no other handle, and removes the key; a
\* removed key comes back only through Set, and a Get of an absent key reports
\* not-found.
C8_DeleteStoredKey ==
  [][\A t \in Callers, k \in Keys :
       /\ (DeleteStep(t) /\ local'[t].key = k /\ k \in DOMAIN pool) =>
            /\ local'[t].ok
            /\ closeCount[pool[k].Db] = 0 /\ closeCount'[pool[k].Db] = 1
            /\ \A h \in Handles \ {pool[k].Db} : closeCount'[h] = closeCount[h]
            /\ k \notin DOMAIN pool'
       /\ (k \notin DOMAIN pool /\ k \in DOMAIN pool') =>
            \E u \in Callers : SetStoreStep(u) /\ local[u].key = k
       /\ (GetLookupStep(t) /\ local'[t].key = k /\ k \notin DOMAIN pool) =>
            (pc'[t] = "get_unlock" /\ ~local'[t].ok)
    ]_vars

\* Delete has returned nil for a key that is gone from the map, its handle
\* closed once, by Delete.
C8_Witness ==
  \E t \in Callers :
     /\ pc[t] = "delete_ret" /\ local[t].ok
     /\ local[t].key \notin DOMAIN pool
     /\ closeCount[local[t].db] = 1 /\ closedBy[local[t].db] = {"Delete"}

\* C9: Delete of a key that is not in the map returns the not-found error and
\* changes neither the map nor any handle.
C9_DeleteAbsentKey ==
  [][\A t \in Callers :
       (DeleteStep(t) /\ local'[t].key \notin DOMAIN pool) =>
          (~local'[t].ok /\ UNCHANGED <<pool, closeCount, closedBy, warnings>>)
    ]_vars

\* Delete has returned the error for an absent key while the map holds
\* another key.
C9_Witness ==
  \E t \in Callers :
     /\ pc[t] = "delete_ret" /\ ~local[t].ok
     /\ local[t].key \notin DOMAIN pool
     /\ DOMAIN pool # {}

\* C10: whatever Close returns, Delete of a stored key removes it and returns
\* nil, clearItems removes every key of its list and ClearAll every key; the
\* only error returned is Delete's, for a key that was not in the map.
C10_CloseErrorNeverBlocks ==
  [][/\ \A t \in Callers :
          /\ (DeleteStep(t) /\ local'[t].key \in DOMAIN pool) =>
                (local'[t].key \notin DOMAIN pool' /\ local'[t].ok)
          /\ (DeleteStep(t) /\ ~local'[t].ok) => local'[t].key \notin DOMAIN pool
     /\ GCClearStep => DOMAIN pool' = (DOMAIN pool) \ local[GCThread].keys
     /\ ClearAllStep => DOMAIN pool' = {}
    ]_vars

\* The GC has evicted both keys in one clearItems although the Close of one of
\* the two handles returned an error.
C10_Witness ==
  /\ DOMAIN pool = {}
  /\ \A h \in {1, 2} : closedBy[h] = {"clearItems"}
  /\ Cardinality(warnings) = 1

\* The entry that holds handle h is in the map and has expired.
ExpiredInMap(h) ==
  \E k \in DOMAIN pool : pool[k].Db = h /\ IsExpired(pool[k], now)

\* C11 (under SpecSweeper): on a cache with cleanupInterval > 0 whose GC
\* goroutine is scheduled fairly, an entry that has expired does not stay
\* expired in the map: as long as the process runs, eventually its handle is
\* out of the map with Close called on it, unless a Set overwrote the entry
\* (the handle is out of the map unclosed) or a Get refreshed it (it is in the
\* map, not expired). No Get or Delete is needed for that.
C11_SweeperEvictsExpired ==
  \A h \in Handles :
     ExpiredInMap(h) ~>
        \/ h \notin Held /\ closeCount[h] = 1
        \/ h \notin Held /\ closeCount[h] = 0
        \/ h \in Held /\ ~ExpiredInMap(h)
        \/ fatal

\* The GC has evicted the only entry ever stored: its handle is closed, by
\* clearItems, and the map is empty.
C11_Witness ==
  /\ nextHandle = 2
  /\ closedBy[1] = {"clearItems"} /\ closeCount[1] = 1
  /\ DOMAIN pool = {}
  /\ cleanupInterval > 0

\* ClearAll has closed a handle at some time before.
AfterClearAll == \E h \in Handles : "ClearAll" \in closedBy[h]

\* C12: ClearAll calls Close exactly once on the handle of every entry of the
\* map and on no other handle, and leaves the map empty; after it the cache
\* is usable: a Set stores its entry, and a Get of a stored entry that has not
\* expired finds it.
C12_ClearAllClosesEverything ==
  [][/\ ClearAllStep =>
          /\ \A h \in Handles :
                closeCount'[h] = IF h \in Held THEN closeCount[h] + 1 ELSE closeCount[h]
          /\ \A h \in Held : closeCount[h] = 0
          /\ pool' = << >>
     /\ AfterClearAll =>
          \A t \in Callers :
             /\ SetStoreStep(t) =>
                   /\ local[t].key \in DOMAIN pool'
                   /\ pool'[local[t].key].Db = local[t].db
             /\ \A k \in DOMAIN pool :
                   (GetLookupStep(t) /\ local'[t].key = k /\ ~IsExpired(pool[k], now)) =>
                      (local'[t].ok /\ local'[t].db = pool[k].Db)
    ]_vars

\* ClearAll has emptied a map of one entry, closing its handle, and a Get has
\* then found the entry a later Set stored.
C12_Witness ==
  \E t \in Callers :
     /\ closedBy[1] = {"ClearAll"} /\ closeCount[1] = 1
     /\ pc[t] = "get_unlock" /\ local[t].ok /\ local[t].db = 2
     /\ DOMAIN pool = {local[t].key}

\* C13: clearItems tolerates keys of its list that are no longer in the map
\* (removed by Delete or ClearAll after the scan): Close is called once on
\* the handle of each listed key that is in the map and on nothing else, a
\* warning is logged for such handles only, the listed keys are gone, every
\* other entry is as it was, and the GC goes back to its timer.
C13_EvictToleratesRemovedKey ==
  [][GCClearStep =>
       LET keys == local[GCThread].keys
           present == {pool[k].Db : k \in keys \cap DOMAIN pool}
       IN /\ \A h \in Handles :
                closeCount'[h] = IF h \in present THEN closeCount[h] + 1 ELSE closeCount[h]
          /\ warnings' \ warnings \subseteq present
          /\ pool' = [k \in (DOMAIN pool) \ keys |-> pool[k]]
          /\ pc'[GCThread] = "gc_sleep"
    ]_vars

\* The GC is about to evict a snapshot of two keys, one of which a Delete or
\* ClearAll has removed since the scan while the other is still in the map.
C13_Witness ==
  /\ pc[GCThread] = "gc_clear" /\ readers = {}
  /\ \E k, j \in local[GCThread].keys :
        /\ k \notin DOMAIN pool /\ j \in DOMAIN pool
        /\ \E h \in Handles : closedBy[h] \in {{"Delete"}, {"ClearAll"}}

\* C14: GetItems returns exactly the keys of the map, expired ones included;
\* ExpiredKeys (called by a caller or by the GC) returns exactly the keys whose
\* entry has Expiration > 0 and now > Expiration, a subset of the map's keys
\* that holds no entry with Expiration = 0; neither changes the map or closes
\* a handle, up to and including its return.
C14_KeyListings ==
  [][\A t \in Threads :
       /\ (pc[t] = "idle" /\ pc'[t] = "items_unlock") =>
             /\ local'[t].keys = DOMAIN pool
             /\ UNCHANGED <<pool, closeCount>>
       /\ (pc'[t] # pc[t] /\ pc'[t] \in {"expired_unlock", "gc_unlock"}) =>
             /\ local'[t].keys =
                   {k \in DOMAIN pool : pool[k].Expiration > 0 /\ now > pool[k].Expiration}
             /\ local'[t].keys \subseteq DOMAIN pool
             /\ \A k \in local'[t].keys : pool[k].Expiration # 0
             /\ UNCHANGED <<pool, closeCount>>
       /\ (pc[t] \in {"items_unlock", "expired_unlock", "gc_unlock"} /\ pc'[t] # pc[t]
            /\ pc'[t] # "dead") =>
             UNCHANGED <<pool, closeCount>>
    ]_vars

\* One caller holds the result of GetItems, both keys of the map, and another
\* the result of ExpiredKeys, only one of the two.
C14_Witness ==
  \E t, u \in Callers :
     /\ pc[t] = "items_unlock" /\ local[t].keys = DOMAIN pool
     /\ Cardinality(DOMAIN pool) = 2
     /\ pc[u] = "expired_unlock" /\ Cardinality(local[u].keys) = 1
     /\ local[u].keys = ExpiredKeysOf(pool, now)

\* C15, as claimed: Set resolves the duration to the default when it is 0,
\* stores Expiration = 0 when the resolved duration is <= 0 and the sum
\* now + duration otherwise, and stores the resolved duration as Duration.
C15_SetStoresSum ==
  [][\A t \in Callers :
       /\ \A key \in Keys, d \in Durations :
            SetBegin(t, key, d) =>
               LET effective == IF d = 0 THEN defaultExpiration ELSE d
               IN /\ local'[t].duration = effective
                  /\ local'[t].expiration = IF effective <= 0 THEN 0 ELSE now + effective
       /\ SetStoreStep(t) =>
            pool'[local[t].key] =
               [Db |-> local[t].db, Expiration |-> local[t].expiration,
                Duration |-> local[t].duration]
    ]_vars

\* C15, amended: as above, but the sum is an int64: when now + duration
\* exceeds the largest int64 the stored Expiration is the sum reduced to the
\* two's complement range, a negative number, which no expiry test (Get,
\* ExpiredKeys) takes for expired at any time.
C15_SetStoresWrappedSum ==
  [][\A t \in Callers :
       /\ \A key \in Keys, d \in Durations :
            SetBegin(t, key, d) =>
               LET effective == IF d = 0 THEN defaultExpiration ELSE d
               IN /\ local'[t].duration = effective
                  /\ local'[t].expiration =
                        IF effective <= 0 THEN 0
                        ELSE IF now + effective <= MaxInt THEN now + effective
                        ELSE now + effective - 2 ^ IntBits
                  /\ (now + effective > MaxInt) =>
                        \A u \in 1 .. MaxTime :
                           ~IsExpired(PoolItem(local'[t].db, local'[t].expiration, effective), u)
       /\ SetStoreStep(t) =>
            pool'[local[t].key] =
               [Db |-> local[t].db, Expiration |-> local[t].expiration,
                Duration |-> local[t].duration]
    ]_vars

\* The map holds an entry stored with the largest duration, its Expiration
\* negative, next to one whose Expiration is the sum now + duration.
C15_Witness ==
  \E k, j \in DOMAIN pool :
     /\ pool[k].Duration = MaxInt /\ pool[k].Expiration < 0
     /\ pool[j].Duration = 1 /\ pool[j].Expiration \in 2 .. MaxTime + 1

\* C16: Set calls Close on no handle and logs nothing, neither while it
\* computes the expiration nor when it stores; its store puts the caller's
\* handle under its key and leaves the entry of every other key as it was.
C16_SetTouchesOnlyItsKey ==
  [][\A t \in Callers :
       /\ (pc[t] = "idle" /\ pc'[t] = "set_store") =>
             UNCHANGED <<pool, closeCount, closedBy, warnings>>
       /\ SetStoreStep(t) =>
             /\ UNCHANGED <<closeCount, closedBy, warnings>>
             /\ DOMAIN pool' = (DOMAIN pool) \cup {local[t].key}
             /\ pool'[local[t].key].Db = local[t].db
             /\ \A k \in (DOMAIN pool) \ {local[t].key} : pool'[k] = pool[k]
    ]_vars

\* A Set has overwritten the entry of another Set: both handles were stored,
\* the map holds the second only, next to no other key, and neither handle
\* has been closed.
C16_Witness ==
  /\ Stored = {1, 2} /\ Held = {2}
  /\ closeCount[1] = 0 /\ closeCount[2] = 0
  /\ \A t \in Callers : pc[t] = "idle"

\* The GC goroutine is in its loop and its next step is there to be taken: the
\* timer and the scan, the return of the scan, or the eviction once the write
\* lock is free.
SweeperRuns ==
  /\ pc[GCThread] \in {"gc_sleep", "gc_unlock", "gc_clear"}
  /\ pc[GCThread] = "gc_sleep" => ENABLED GCScan
  /\ pc[GCThread] = "gc_unlock" => ENABLED GCUnlock
  /\ (pc[GCThread] = "gc_clear" /\ readers = {}) => ENABLED GCClear

\* C17: while the process runs, the GC goroutine of a cache created with
\* cleanupInterval > 0 never leaves its loop (c.pool is never nil) and always
\* has a next step; on a cache created with cleanupInterval = 0 no GC
\* goroutine exists, and an expired entry leaves the map, or has its handle
\* replaced, only in a step of Delete, ClearAll or Set.
C17_SweeperNeverStops ==
  /\ [](~fatal => IF cleanupInterval > 0 THEN SweeperRuns ELSE pc[GCThread] = "gc_off")
  /\ [][\A k \in DOMAIN pool :
          ( /\ cleanupInterval = 0
            /\ IsExpired(pool[k], now)
            /\ (k \notin DOMAIN pool' \/ pool'[k].Db # pool[k].Db) )
          => (ClearAllStep \/ \E t \in Callers : DeleteStep(t) \/ SetStoreStep(t))
      ]_vars

\* The GC has evicted an entry and, the map now empty and the clock at its
\* last value, has come round to scan again.
C17_Witness ==
  /\ cleanupInterval > 0
  /\ pc[GCThread] = "gc_unlock"
  /\ \E h \in Handles : closedBy[h] = {"clearItems"}
  /\ DOMAIN pool = {}
  /\ now = MaxTime

\* A step of t's Get: the lookup, the computation of the new expiration, the
\* write, or the unlock and return.
GetStepOf(t) ==
  \/ GetLookupStep(t)
  \/ pc[t] \in {"get_compute", "get_store", "get_unlock"} /\ pc'[t] # pc[t] /\ pc'[t] # "dead"

\* C18: no step of a Get adds or removes a key, changes the Db or the Duration
\* of an entry, changes the entry of a key other than its own, or closes a
\* handle; a Get that reports not-found changes nothing in the map.
C18_GetChangesOnlyExpiration ==
  [][\A t \in Callers :
       GetStepOf(t) =>
          LET mine == IF pc[t] = "idle" THEN local'[t] ELSE local[t]
          IN /\ DOMAIN pool' = DOMAIN pool
             /\ \A k \in DOMAIN pool :
                   /\ pool'[k].Db = pool[k].Db
                   /\ pool'[k].Duration = pool[k].Duration
                   /\ k # mine.key => pool'[k] = pool[k]
             /\ ~mine.ok => pool' = pool
             /\ UNCHANGED <<closeCount, closedBy>>
    ]_vars

\* A Get that found its key has written the refreshed Expiration of the
\* entry, in a map that holds another key too.
C18_Witness ==
  \E t \in Callers :
     /\ pc[t] = "get_unlock" /\ local[t].ok
     /\ Cardinality(DOMAIN pool) = 2
     /\ local[t].key \in DOMAIN pool
     /\ pool[local[t].key].Expiration = local[t].expiration
     /\ local[t].expiration = now + 1

\* C19: the map holds no handle on which Close has been called, and the
\* handle a Get found has not been closed for as long as the Get holds its
\* read lock, up to its return.
C19_MapHoldsNoClosedHandle ==
  /\ \A k \in DOMAIN pool : closeCount[pool[k].Db] = 0
  /\ \A t \in Callers :
        (pc[t] \in {"get_compute", "get_store", "get_unlock"} /\ local[t].ok) =>
           (local[t].db \in Held /\ closeCount[local[t].db] = 0)

\* A Get is about to return a handle that is open, after another handle was
\* closed and removed.
C19_Witness ==
  \E t \in Callers, h \in Handles :
     /\ pc[t] = "get_unlock" /\ local[t].ok
     /\ closeCount[local[t].db] = 0
     /\ closeCount[h] = 1 /\ h \notin Held

\* Key k is in the map and an operation that still holds the read lock has
\* found its entry expired: a Get that is about to report not-found for it, or
\* an ExpiredKeys (a caller's or the GC's) that lists it. (No Set, Delete or
\* eviction can have come in since: they need the write lock.)
ObservedExpired(k) ==
  /\ k \in DOMAIN pool
  /\ \E t \in Threads :
        \/ pc[t] = "get_unlock" /\ ~local[t].ok /\ local[t].key = k
        \/ pc[t] \in {"expired_unlock", "gc_unlock"} /\ k \in local[t].keys

\* C20: expiry is permanent. Once the entry of key k has been found expired,
\* it is expired (Expiration > 0 and now > Expiration) and stays so for as
\* long as it is in the map with the same handle: no step of a Get makes it
\* unexpired, every Get of k reports not-found and every ExpiredKeys lists k.
C20_ExpiryIsPermanent ==
  [][\A k \in Keys :
       ObservedExpired(k) =>
         /\ IsExpired(pool[k], now)
         /\ (k \in DOMAIN pool' /\ pool'[k].Db = pool[k].Db) => IsExpired(pool'[k], now')
         /\ \A t \in Callers :
              (GetLookupStep(t) /\ local'[t].key = k) => ~local'[t].ok
         /\ \A t \in Threads :
              (pc'[t] # pc[t] /\ pc'[t] \in {"expired_unlock", "gc_unlock"}) =>
                 k \in local'[t].keys
    ]_vars
====
